---- MODULE Spec2Model ----
(***************************************************************************)
(* Model of the MCP stdio proxy (mcp-proxy.js) and its credential cache    *)
(* (np_token.js).                                                          *)
(*                                                                         *)
(* One step of the model is one turn of the Node event loop: the arrival   *)
(* of a line on standard input (the handler runs up to its first pending   *)
(* HTTP call, or to its end when it makes none) or the completion of one   *)
(* pending HTTP call (the handler resumes and runs up to its next pending  *)
(* HTTP call, or to its end).  Continuations that involve no I/O run in    *)
(* the microtask queue of the same turn and are part of the same step.     *)
(***************************************************************************)
EXTENDS Integers, Sequences, FiniteSets, TLC

(***************************************************************************)
(* Bounds of the model.                                                    *)
(***************************************************************************)
MaxLines == 2          \* lines read from standard input
MaxPending == 2        \* lines whose HTTP calls are pending at the same time
MaxTicks == 2          \* milliseconds the clock advances

(***************************************************************************)
(* JavaScript values.  Every value is a record tagged with its type.  A    *)
(* string is the sequence of its "/"-separated segments, <<>> being the    *)
(* empty string; an object is a function from its own keys to values.      *)
(***************************************************************************)
Undef == [t |-> "undefined"]
Null == [t |-> "null"]
Str(s) == [t |-> "string", s |-> s]
Num(n) == [t |-> "number", n |-> n]
Obj(f) == [t |-> "object", f |-> f]
EmptyObj == Obj([k \in {} |-> Undef])

\* v.k for a value v that is neither null nor undefined
Get(v, k) == IF v.t = "object" /\ k \in DOMAIN v.f THEN v.f[k] ELSE Undef

\* v.k throws a TypeError
GetThrows(v) == v.t \in {"undefined", "null"}

\* v?.k
OptGet(v, k) == IF GetThrows(v) THEN Undef ELSE Get(v, k)

\* ToBoolean(v)
Truthy(v) ==
    CASE v.t = "undefined" -> FALSE
      [] v.t = "null" -> FALSE
      [] v.t = "string" -> v.s # <<>>
      [] v.t = "number" -> v.n # 0
      [] OTHER -> TRUE

\* { ...a, ...b } for an object a: the own enumerable keys of b override a's.
\* Spreading undefined, null or a number adds nothing; spreading a string
\* adds its characters under their indices (strings here have one
\* character per segment and no "/").
SpreadKeys(b) ==
    CASE b.t = "object" -> DOMAIN b.f
      [] b.t = "string" -> {ToString(i - 1) : i \in 1..Len(b.s)}
      [] OTHER -> {}

SpreadVal(b, k) ==
    IF b.t = "object" THEN b.f[k]
    ELSE Str(<<b.s[CHOOSE i \in 1..Len(b.s) : ToString(i - 1) = k]>>)

Spread(a, b) ==
    Obj([k \in DOMAIN a.f \cup SpreadKeys(b) |->
            IF k \in SpreadKeys(b) THEN SpreadVal(b, k) ELSE a.f[k]])

\* JSON.stringify(v), as the JSON document a reader of the text gets: the
\* keys whose value is undefined are left out, at every depth.
RECURSIVE JSONstringify(_)
JSONstringify(v) ==
    IF v.t = "object"
    THEN Obj([k \in {j \in DOMAIN v.f : v.f[j] # Undef} |-> JSONstringify(v.f[k])])
    ELSE v

HasKey(doc, k) == doc.t = "object" /\ k \in DOMAIN doc.f

\* o.k = v for an object o
SetKey(o, k, v) == Obj([j \in DOMAIN o.f \cup {k} |-> IF j = k THEN v ELSE o.f[j]])

(***************************************************************************)
(* Program constants.                                                      *)
(***************************************************************************)
LATEST_PROTOCOL_VERSION == Str(<<"2024-11-05">>)
RefreshMargin == 10000
InternalErrorCode == 0 - 32603
NotificationPrefix == "notifications"

(***************************************************************************)
(* Proxy configuration, as accepted by ConfigSchema.  rawConfig.agentId is *)
(* argv.agentId || process.env.AGENT_ID: undefined, or a string, which is  *)
(* empty when the environment variable is set to the empty string.         *)
(* rawConfig.selector is undefined or a non-empty object: parseSelectorString *)
(* and getSelectorFromEnv return undefined for an empty one.               *)
(***************************************************************************)
Selector == Obj([region |-> Str(<<"us">>)])
AgentIds == {Undef, Str(<<>>), Str(<<"agent-1">>)}
Selectors == {Undef, Selector}
RawConfigs == [agentId : AgentIds, selector : Selectors]

\* the refinement of ConfigSchema
ConfigSchema(data) ==
    \/ data.agentId # Undef
    \/ data.selector # Undef /\ DOMAIN data.selector.f # {}

Configs == {c \in RawConfigs : ConfigSchema(c)}

(***************************************************************************)
(* Lines of standard input.  A line is blank, or is not JSON, or is the    *)
(* text of a JSON value.                                                   *)
(***************************************************************************)
BlankLine == [kind |-> "blank"]
GarbageLine == [kind |-> "garbage"]
JsonLine(v) == [kind |-> "json", v |-> v]

Version2 == Str(<<"2.0">>)
ToolsCall == Str(<<"tools", "call">>)
JsonrpcValues == {Undef, Version2, Str(<<"1.0">>)}
IdValues == {Undef, Num(7), Num(8)}
MethodValues == {Undef, Str(<<>>), Str(<<"initialize">>), Str(<<"ping">>),
                 ToolsCall, Str(<<"notifications", "initialized">>), Num(5)}
Params == Obj([name |-> Str(<<"deploy">>)])

\* the members of a message; Undef stands for "no such member"; a tools/call
\* message has params
Members(j, i, m) ==
    [k \in {"jsonrpc", "id", "method", "params"} |->
        CASE k = "jsonrpc" -> j
          [] k = "id" -> i
          [] k = "method" -> m
          [] OTHER -> IF m = ToolsCall THEN Params ELSE Undef]

Message(j, i, m) ==
    LET mem == Members(j, i, m)
    IN  Obj([k \in {x \in DOMAIN mem : mem[x] # Undef} |-> mem[k]])

Messages == {Message(j, i, m) : j \in JsonrpcValues, i \in IdValues, m \in MethodValues}

Lines == {BlankLine, GarbageLine, JsonLine(Null)} \cup {JsonLine(v) : v \in Messages}

\* !line.trim()
IsBlank(line) == line.kind = "blank"

\* JSON.parse(line)
JSONparse(line) ==
    IF line.kind = "json" THEN [ok |-> TRUE, v |-> line.v] ELSE [ok |-> FALSE]

\* s.startsWith(prefix + "/")
StartsWith(s, prefix) == Len(s.s) >= 2 /\ s.s[1] = prefix

(***************************************************************************)
(* What the remote side can answer.  An HTTP call of axios either resolves *)
(* with a status and a body (an absent body is the empty string) or        *)
(* rejects: a status outside 2xx, a network error or a timeout.            *)
(***************************************************************************)
Resolve(status, data) == [kind |-> "resolve", status |-> status, data |-> data]
Reject == [kind |-> "reject"]
NoBody == Str(<<>>)

TTLs == {9999, 10000}
AccessTokens == {Str(<<"token-1">>), Str(<<"token-2">>)}

\* the body of a 200 answer of the token endpoint to a fetch
TokenBody(access, expires) ==
    Obj([access_token |-> access, refresh_token |-> Str(<<"refresh">>),
         organization_id |-> Str(<<"org">>), token_expires_at |-> Num(expires)])

\* the body of a 200 answer to a refresh
RefreshBody(access, expires) ==
    Obj([access_token |-> access, token_expires_at |-> Num(expires)])

FetchOutcomes(t) ==
    {Resolve(200, TokenBody(a, t + ttl)) : a \in AccessTokens, ttl \in TTLs}
    \cup {Resolve(200, NoBody), Resolve(201, NoBody), Reject}

RefreshOutcomes(t) ==
    {Resolve(200, RefreshBody(a, t + ttl)) : a \in AccessTokens, ttl \in TTLs}
    \cup {Resolve(204, NoBody), Reject}

True == [t |-> "boolean", b |-> TRUE]
Ok == Obj([ok |-> True])
RemoteError == Obj([code |-> Num(1), message |-> Str(<<"remote">>)])
Results ==
    {Ok, Null, Str(<<"s">>),
     Obj([result |-> Ok]),
     Obj([error |-> RemoteError]),
     Obj([result |-> Ok, error |-> RemoteError]),
     Obj([jsonrpc |-> Str(<<"1.0">>), id |-> Num(99), result |-> Ok])}

CommandOutcomes ==
    {Resolve(200, Obj([result |-> r])) : r \in Results}
    \cup {Resolve(200, EmptyObj), Resolve(200, NoBody), Reject}

(***************************************************************************)
(* State.                                                                  *)
(***************************************************************************)
VARIABLES
    config,     \* the validated configuration
    now,        \* new Date().getTime()
    fullToken,  \* NPToken.fullToken
    handler,    \* handler[i]: the invocation of the 'line' callback for the i-th line
    stdout      \* standard output: the number of lines written and the last of them

vars == <<config, now, fullToken, handler, stdout>>

\* a request whose data leaves out the jsonrpc and id members of the command
CommandRequest_Stripped(cfg, command) ==
    LET data == Obj([k \in DOMAIN command.f \ {"jsonrpc", "id"} |-> command.f[k]])
        request == Obj([command |-> Obj([type |-> Str(<<"mcp-exec">>), data |-> data])])
    IN  IF Truthy(cfg.agentId) THEN SetKey(request, "agent_id", cfg.agentId)
        ELSE SetKey(request, "selector", cfg.selector)

\* the request executeCommand builds before it calls getToken
CommandRequest(cfg, command) ==
    LET request == Obj([command |-> Obj([type |-> Str(<<"mcp-exec">>),
                                        data |-> Spread(EmptyObj, command)])])
    IN  IF Truthy(cfg.agentId) THEN SetKey(request, "agent_id", cfg.agentId)
        ELSE SetKey(request, "selector", cfg.selector)

\* An invocation that is suspended holds its line, the request executeCommand
\* has built, the HTTP call it waits for (pc) and, once getToken has returned,
\* the token.  Of one that has ended, the model keeps what it passed to
\* sendResponse: "none" (a blank line, sendResponse is not called), "null" or
\* "response".
Done(r) == [pc |-> "done", returned |-> r]
Awaiting(line, pc, token) ==
    [pc |-> pc, line |-> line, token |-> token,
     request |-> CommandRequest(config, line.v)]

NoLine == [t |-> "none"]

(***************************************************************************)
(* processMcpCommand, up to its first pending HTTP call.                   *)
(***************************************************************************)
\* an error response that never carries the id of the request
ErrorResponse_NullId(id, message) ==
    Obj([jsonrpc |-> Version2, id |-> Null,
         error |-> Obj([code |-> Num(InternalErrorCode), message |-> Str(<<message>>)])])

\* the response of the catch block: id is the local `id` at the throw
ErrorResponse(id, message) ==
    Obj([jsonrpc |-> Version2, id |-> id,
         error |-> Obj([code |-> Num(InternalErrorCode), message |-> Str(<<message>>)])])

\* let response = { jsonrpc: "2.0", id: id }
ResponseBase(id) == Obj([jsonrpc |-> Version2, id |-> id])

InitializeResult ==
    Obj([protocolVersion |-> LATEST_PROTOCOL_VERSION,
         capabilities |-> Obj([tools |-> EmptyObj]),
         serverInfo |-> Obj([name |-> Str(<<"Nullplatform MCP Proxy">>),
                             version |-> Str(<<"1.0.0">>)])])

\* the message of the error the validation of the parsed command throws, or "none"
ValidationError(c) ==
    IF GetThrows(c) THEN "TypeError"
    ELSE IF ~Truthy(Get(c, "jsonrpc")) \/ Get(c, "jsonrpc") # Version2
         THEN "Invalid JSON-RPC version"
    ELSE IF ~Truthy(Get(c, "method")) THEN "Missing method"
    ELSE "none"

\* a classification that looks at the id only
IsNotification_IdOnly(c) == Get(c, "id") = Undef

\* isNotification || parsedCommand.method.startsWith('notifications/'), for a
\* validated command; a method that is not a string has no startsWith
IsNotification(c) ==
    \/ Get(c, "id") = Undef
    \/ Get(c, "method").t = "string" /\ StartsWith(Get(c, "method"), NotificationPrefix)

StartsWithThrows(c) == Get(c, "id") # Undef /\ Get(c, "method").t # "string"

\* a switch without the case 'ping'
Switch_NoPing(method) ==
    IF method = Str(<<"initialize">>) THEN "initialize" ELSE "default"

\* the branch of the switch on parsedCommand.method
Switch(method) ==
    IF method = Str(<<"initialize">>) THEN "initialize"
    ELSE IF method = Str(<<"ping">>) THEN "ping"
    ELSE "default"

Return(response) == [kind |-> "return", response |-> response]
Execute(command) == [kind |-> "execute", command |-> command]

processMcpCommand(line) ==
    LET parsed == JSONparse(line)
    IN  IF ~parsed.ok THEN Return(ErrorResponse(Undef, "Invalid JSON format"))
        ELSE LET c == parsed.v
                 id == Get(c, "id")
             IN  IF ValidationError(c) # "none"
                 THEN Return(ErrorResponse(Undef, ValidationError(c)))
                 ELSE IF StartsWithThrows(c) THEN Return(ErrorResponse(id, "TypeError"))
                 ELSE IF IsNotification(c) THEN Return(Null)
                 ELSE IF Switch(Get(c, "method")) = "initialize"
                      THEN Return(SetKey(ResponseBase(id), "result", InitializeResult))
                 ELSE IF Switch(Get(c, "method")) = "ping"
                      THEN Return(SetKey(ResponseBase(id), "result", EmptyObj))
                 ELSE Execute(c)

\* the local `id` of processMcpCommand once executeCommand has been called
IdOf(line) == Get(line.v, "id")

\* response = { ...response, ...resp } with resp = resp?.data?.result
Merge(id, data) == Spread(ResponseBase(id), OptGet(data, "result"))

\* a sendResponse that writes whatever it is given, null included
sendResponse_Unconditional(out, response) ==
    [count |-> out.count + 1, last |-> JSONstringify(response)]

\* sendResponse: standard output after the call
sendResponse(out, response) ==
    IF Truthy(response)
    THEN [count |-> out.count + 1, last |-> JSONstringify(response)]
    ELSE out

(***************************************************************************)
(* executeCommand and NPToken.getToken.                                    *)
(***************************************************************************)
\* a margin test with <= in place of <
IsStale_Inclusive(token, t) ==
    LET expires == OptGet(token, "token_expires_at")
    IN  expires.t = "number" /\ expires.n - RefreshMargin <= t

\* this.fullToken?.token_expires_at - 10000 < new Date().getTime();
\* undefined - 10000 is NaN, and NaN < t is false
IsStale(token, t) ==
    LET expires == OptGet(token, "token_expires_at")
    IN  expires.t = "number" /\ expires.n - RefreshMargin < t

\* a cache that asks the token endpoint again whenever it holds a record
getToken_NoCache(token, t) ==
    IF ~Truthy(token) THEN "fetch" ELSE "refresh"

\* `Bearer ${token}`: the text of the token after "Bearer "; the text of
\* undefined is "undefined"
Bearer(token) ==
    IF token.t = "string" THEN Str(<<"Bearer ">> \o token.s) ELSE Str(<<"Bearer ", token.t>>)

\* a refresh that stores the body of the answer as the record
Refreshed_Replaced(token, data) == data

\* this.fullToken.access_token = resp.data?.access_token;
\* this.fullToken.token_expires_at = resp.data?.token_expires_at;
Refreshed(token, data) ==
    SetKey(SetKey(token, "access_token", OptGet(data, "access_token")),
           "token_expires_at", OptGet(data, "token_expires_at"))

\* the branch getToken takes
getToken(token, t) ==
    IF ~Truthy(token) THEN "fetch"
    ELSE IF IsStale(token, t) THEN "refresh"
    ELSE "cached"

(***************************************************************************)
(* Initial state and steps.                                                *)
(***************************************************************************)
AgentOnly == [agentId |-> Str(<<"agent-1">>), selector |-> Undef]

Init ==
    /\ config = AgentOnly
    /\ now = 0
    /\ fullToken = Undef
    /\ handler = <<>>
    /\ stdout = [count |-> 0, last |-> NoLine]

Handlers == 1..Len(handler)
Pending == {i \in Handlers : handler[i].pc # "done"}

\* a handler that swallows the failure and goes on to post the command,
\* without a token
Catch_Proceed(i, message) ==
    /\ handler' = [handler EXCEPT ![i] = Awaiting(@.line, "command", Undef)]
    /\ UNCHANGED stdout

\* the catch block of processMcpCommand, then sendResponse
Catch(i, message) ==
    /\ handler' = [handler EXCEPT ![i] = Done("response")]
    /\ stdout' = sendResponse(stdout, ErrorResponse(IdOf(handler[i].line), message))

\* a read loop that takes the next line only when no invocation is suspended
OnLine_Serial(line, limit) ==
    /\ Pending = {}
    /\ Len(handler) < limit
    /\ Cardinality(Pending) < MaxPending
    /\ LET r == processMcpCommand(line)
           branch == getToken(fullToken, now)
       IN  IF IsBlank(line)
           THEN /\ handler' = Append(handler, Done("none"))
                /\ UNCHANGED stdout
           ELSE IF r.kind = "return"
           THEN /\ handler' = Append(handler,
                                        Done(IF r.response = Null THEN "null" ELSE "response"))
                /\ stdout' = sendResponse(stdout, r.response)
           ELSE /\ handler' = Append(handler,
                      IF branch = "cached"
                      THEN Awaiting(line, "command", OptGet(fullToken, "access_token"))
                      ELSE Awaiting(line, branch, Undef))
                /\ UNCHANGED stdout
    /\ UNCHANGED <<config, now, fullToken>>

\* rl.on('line'): the next line of standard input arrives
OnLine(line, limit) ==
    /\ Len(handler) < limit
    /\ Cardinality(Pending) < MaxPending
    /\ LET r == processMcpCommand(line)
           branch == getToken(fullToken, now)
       IN  IF IsBlank(line)
           THEN /\ handler' = Append(handler, Done("none"))
                /\ UNCHANGED stdout
           ELSE IF r.kind = "return"
           THEN /\ handler' = Append(handler,
                                        Done(IF r.response = Null THEN "null" ELSE "response"))
                /\ stdout' = sendResponse(stdout, r.response)
           ELSE /\ handler' = Append(handler,
                      IF branch = "cached"
                      THEN Awaiting(line, "command", OptGet(fullToken, "access_token"))
                      ELSE Awaiting(line, branch, Undef))
                /\ UNCHANGED stdout
    /\ UNCHANGED <<config, now, fullToken>>

\* the POST of the API key to /token completes
FetchDone(i, o) ==
    /\ handler[i].pc = "fetch"
    /\ IF o.kind = "reject"
       THEN Catch(i, "Request failed") /\ UNCHANGED fullToken
       ELSE IF o.status # 200
       THEN Catch(i, "Error getting token") /\ UNCHANGED fullToken
       ELSE /\ fullToken' = o.data
            /\ handler' = [handler EXCEPT ![i] =
                   Awaiting(@.line, "command", OptGet(o.data, "access_token"))]
            /\ UNCHANGED stdout
    /\ UNCHANGED <<config, now>>

\* the POST of the refresh token completes
RefreshDone(i, o) ==
    /\ handler[i].pc = "refresh"
    /\ IF o.kind = "reject"
       THEN Catch(i, "Request failed") /\ UNCHANGED fullToken
       ELSE IF o.status # 200
       THEN fullToken' = Undef /\ Catch(i, "Error getting token")
       ELSE IF fullToken.t # "object"
       THEN Catch(i, "TypeError") /\ UNCHANGED fullToken
       ELSE /\ fullToken' = Refreshed(fullToken, o.data)
            /\ handler' = [handler EXCEPT ![i] =
                   Awaiting(@.line, "command", OptGet(fullToken', "access_token"))]
            /\ UNCHANGED stdout
    /\ UNCHANGED <<config, now>>

\* the POST to the command endpoint completes
CommandDone(i, o) ==
    /\ handler[i].pc = "command"
    /\ IF o.kind = "reject"
       THEN Catch(i, "Request failed")
       ELSE /\ handler' = [handler EXCEPT ![i] = Done("response")]
            /\ stdout' = sendResponse(stdout, Merge(IdOf(handler[i].line), o.data))
    /\ UNCHANGED <<config, now, fullToken>>

\* the clock advances by one millisecond
Tick ==
    /\ now < MaxTicks
    /\ now' = now + 1
    /\ UNCHANGED <<config, fullToken, handler, stdout>>

Next ==
    \/ \E line \in Lines : OnLine(line, MaxLines)
    \/ \E i \in Handlers : \E o \in FetchOutcomes(now) : FetchDone(i, o)
    \/ \E i \in Handlers : \E o \in RefreshOutcomes(now) : RefreshDone(i, o)
    \/ \E i \in Handlers : \E o \in CommandOutcomes : CommandDone(i, o)
    \/ Tick

Spec == Init /\ [][Next]_vars

(***************************************************************************)
(* The proxy between a client that sends pings, tool calls and their       *)
(* notifications, blank lines and lines that are not JSON, and a command   *)
(* endpoint that answers a call with a JSON-RPC result or fails.  Pending  *)
(* HTTP calls complete (the token client has a timeout of 10 s, the        *)
(* command endpoint is assumed to answer) and the event loop then resumes  *)
(* the invocation that waits.                                              *)
(***************************************************************************)
ClientLines ==
    {BlankLine, GarbageLine}
    \cup {JsonLine(Message(Version2, i, m)) : i \in IdValues, m \in {Str(<<"ping">>), ToolsCall}}

AgentOutcomes == {Resolve(200, Obj([result |-> Obj([result |-> Ok])])), Reject}

\* the HTTP call invocation i waits for completes and the invocation resumes
Completes(i) ==
    /\ i \in Handlers
    /\ \/ \E o \in FetchOutcomes(now) : FetchDone(i, o)
       \/ \E o \in RefreshOutcomes(now) : RefreshDone(i, o)
       \/ \E o \in AgentOutcomes : CommandDone(i, o)

ClientNext ==
    \/ \E line \in ClientLines : OnLine(line, MaxLines)
    \/ \E i \in Handlers : Completes(i)
    \/ Tick

LiveSpec == Init /\ [][ClientNext]_vars /\ WF_vars(\E i \in Handlers : Completes(i))

(***************************************************************************)
(* The credential cache under a client that only sends tool calls, and a   *)
(* token endpoint that also issues tokens far from expiry.                 *)
(***************************************************************************)
MaxCalls == 3          \* tool calls read from standard input

ToolCallLines == {JsonLine(Message(Version2, Num(7), ToolsCall))}

LongFetchOutcomes(t) ==
    {Resolve(200, TokenBody(a, t + ttl)) : a \in AccessTokens, ttl \in {9999, 20000}}
    \cup {Resolve(200, NoBody), Resolve(201, NoBody), Reject}

TokenNext ==
    \/ \E line \in ToolCallLines : OnLine(line, MaxCalls)
    \/ \E i \in Handlers : \E o \in LongFetchOutcomes(now) : FetchDone(i, o)
    \/ \E i \in Handlers : \E o \in RefreshOutcomes(now) : RefreshDone(i, o)
    \/ \E i \in Handlers : \E o \in AgentOutcomes : CommandDone(i, o)
    \/ Tick

TokenSpec == Init /\ [][TokenNext]_vars

(***************************************************************************)
(* The proxy started with any configuration that ConfigSchema accepts.     *)
(***************************************************************************)
RoutingInit ==
    /\ config \in Configs
    /\ now = 0
    /\ fullToken = Undef
    /\ handler = <<>>
    /\ stdout = [count |-> 0, last |-> NoLine]

RoutingSpec == RoutingInit /\ [][ClientNext]_vars

(***************************************************************************)
(* The proxy in front of a command endpoint that never answers: the POST   *)
(* of a forwarded request stays pending for ever (axios.post is called     *)
(* without a timeout), the token endpoint answers as before.               *)
(***************************************************************************)
HungNext ==
    \/ \E line \in Lines : OnLine(line, MaxLines)
    \/ \E i \in Handlers : \E o \in FetchOutcomes(now) : FetchDone(i, o)
    \/ \E i \in Handlers : \E o \in RefreshOutcomes(now) : RefreshDone(i, o)
    \/ Tick

HungSpec == Init /\ [][HungNext]_vars

(***************************************************************************)
(* The proxy under a client that sends one or two lines of every kind the  *)
(* transport loop and processMcpCommand tell apart: blank, not JSON, an    *)
(* invalid envelope, a notification (no id, or a notifications/ method),   *)
(* the two local methods and a forwarded method.  The token and command    *)
(* endpoints answer as in Spec.                                            *)
(***************************************************************************)
SampleLines ==
    {BlankLine, GarbageLine,
     JsonLine(Message(Str(<<"1.0">>), Num(7), Str(<<"ping">>))),
     JsonLine(Message(Version2, Undef, ToolsCall)),
     JsonLine(Message(Version2, Num(7), Str(<<"notifications", "initialized">>))),
     JsonLine(Message(Version2, Num(7), Str(<<"ping">>))),
     JsonLine(Message(Version2, Num(8), Str(<<"initialize">>))),
     JsonLine(Message(Version2, Num(7), ToolsCall)),
     JsonLine(Message(Version2, Num(8), ToolsCall))}

LoopNext ==
    \/ \E line \in SampleLines : OnLine(line, MaxLines)
    \/ \E i \in Handlers : \E o \in FetchOutcomes(now) : FetchDone(i, o)
    \/ \E i \in Handlers : \E o \in RefreshOutcomes(now) : RefreshDone(i, o)
    \/ \E i \in Handlers : \E o \in CommandOutcomes : CommandDone(i, o)
    \/ Tick

LoopSpec == Init /\ [][LoopNext]_vars

(***************************************************************************)
(* Vocabulary of the properties.                                           *)
(***************************************************************************)
\* the line is the text of a JSON object
ParsesToObject(line) == line.kind = "json" /\ line.v.t = "object"

HasMember(line, k) == k \in DOMAIN line.v.f

IsString(line, k) == HasMember(line, k) /\ line.v.f[k].t = "string"

HasVersion2(line) == HasMember(line, "jsonrpc") /\ line.v.f.jsonrpc = Str(<<"2.0">>)

\* the method is present and is not a falsy value
HasMethod(line) ==
    HasMember(line, "method") /\ line.v.f.method \notin {Str(<<>>), Num(0), Null}

HasNotificationMethod(line) ==
    IsString(line, "method") /\ Len(line.v.f.method.s) >= 2
        /\ line.v.f.method.s[1] = "notifications"

\* a request: jsonrpc "2.0", a method that is a non-empty string and not a
\* notification's, and an id
WellFormedRequest(line) ==
    /\ ParsesToObject(line) /\ HasVersion2(line)
    /\ IsString(line, "method") /\ line.v.f.method.s # <<>>
    /\ HasMember(line, "id") /\ ~HasNotificationMethod(line)

LocalMethods == {Str(<<"initialize">>), Str(<<"ping">>)}

LocalRequestLines ==
    {line \in Lines : WellFormedRequest(line) /\ line.v.f.method \in LocalMethods}
ForwardedRequestLines ==
    {line \in Lines : WellFormedRequest(line) /\ line.v.f.method \notin LocalMethods}
UnparsableLines == {line \in Lines : line.kind = "garbage"}
InvalidEnvelopeLines ==
    {line \in Lines : ParsesToObject(line) /\ (~HasVersion2(line) \/ ~HasMethod(line))}
NotificationLikeLines ==
    {line \in Lines : ParsesToObject(line)
                      /\ (~HasMember(line, "id") \/ HasNotificationMethod(line))}
NotificationLines ==
    {line \in NotificationLikeLines : HasVersion2(line) /\ HasMethod(line)}

\* the step writes exactly one line to standard output
WritesOne == stdout'.count = stdout.count + 1
Writes(doc) == WritesOne /\ stdout'.last = doc
WritesNothing == stdout' = stdout

\* the step is a whole invocation for a new line, which ends having passed r to
\* sendResponse and made no HTTP call
ReturnsAtOnce(r) == handler' = Append(handler, Done(r))

\* the step ends invocation i
Ends(i) == handler[i].pc # "done" /\ handler'[i].pc = "done"

\* the step leaves every invocation but i as it is
OnlyTouches(i) ==
    /\ Len(handler') = Len(handler)
    /\ \A j \in Handlers \ {i} : handler'[j] = handler[j]

IsErrorDoc(doc, id) ==
    /\ doc.t = "object" /\ DOMAIN doc.f = {"jsonrpc", "id", "error"}
    /\ doc.f.jsonrpc = Str(<<"2.0">>) /\ doc.f.id = id
    /\ HasKey(doc.f.error, "code") /\ doc.f.error.f.code = Num(0 - 32603)

ResultDoc(id, result) == Obj([jsonrpc |-> Str(<<"2.0">>), id |-> id, result |-> result])

RequestId(i) == handler[i].line.v.f.id

(***************************************************************************)
(* C1.  A forwarded request that the command endpoint answers with HTTP    *)
(* 200 and body {result: R} is answered on standard output by exactly      *)
(* {jsonrpc: "2.0", id: <request id>, result: R}.                          *)
(***************************************************************************)
C1_ResultUnderResultKey ==
    [][\A i \in Handlers : \A o \in CommandOutcomes :
          (CommandDone(i, o) /\ o.kind = "resolve" /\ HasKey(o.data, "result"))
              => Writes(ResultDoc(RequestId(i), o.data.f.result))]_vars

(***************************************************************************)
(* C2.  A line whose object has no id, or whose method starts with         *)
(* "notifications/", makes processMcpCommand return null and writes        *)
(* nothing, whatever its other fields are.                                 *)
(***************************************************************************)
C2_NotificationsSilentWhateverTheRest ==
    [][\A line \in NotificationLikeLines :
          OnLine(line, MaxLines) => (WritesNothing /\ ReturnsAtOnce("null"))]_vars

\* C2 amended: a line whose object has jsonrpc "2.0" and a non-empty method,
\* and has no id or a method starting with "notifications/", makes
\* processMcpCommand return null: nothing is written and no HTTP call is made.
C2_WellFormedNotificationsSilent ==
    [][\A line \in NotificationLines :
          OnLine(line, MaxLines) => (WritesNothing /\ ReturnsAtOnce("null"))]_vars

\* a notification has been handled and nothing has been written
C2_Witness ==
    /\ \E i \in Handlers : handler[i] = Done("null")
    /\ stdout.count = 0

(***************************************************************************)
(* C3.  A line that is not JSON is answered by exactly one line, a         *)
(* JSON-RPC error object with the member id present and null, and code     *)
(* -32603.                                                                 *)
(***************************************************************************)
C3_ParseErrorHasNullId ==
    [][\A line \in UnparsableLines :
          OnLine(line, MaxLines) => (WritesOne /\ IsErrorDoc(stdout'.last, Null))]_vars

(***************************************************************************)
(* C4.  A line that is a JSON object with jsonrpc absent or not "2.0", or  *)
(* with method absent or empty, is answered by an error response (code     *)
(* -32603) whose id is the object's id when it has one, and null otherwise.*)
(***************************************************************************)
C4_InvalidEnvelopeErrorEchoesId ==
    [][\A line \in InvalidEnvelopeLines :
          OnLine(line, MaxLines)
              => (WritesOne /\ IsErrorDoc(stdout'.last,
                      IF HasMember(line, "id") THEN line.v.f.id ELSE Null))]_vars

(***************************************************************************)
(* C5.  Every response written to standard output has exactly one of the   *)
(* members result and error.                                               *)
(***************************************************************************)
C5_ExactlyOneOfResultAndError ==
    stdout.count > 0 => (HasKey(stdout.last, "result") <=> ~HasKey(stdout.last, "error"))

(***************************************************************************)
(* C6.  The response to a well-formed request with an id has jsonrpc       *)
(* "2.0" and the id of the request, whatever the remote endpoint returned. *)
(***************************************************************************)
EchoesId(doc, id) ==
    /\ HasKey(doc, "jsonrpc") /\ doc.f.jsonrpc = Str(<<"2.0">>)
    /\ HasKey(doc, "id") /\ doc.f.id = id

C6_ResponseEchoesRequestId ==
    [][/\ \A i \in Handlers : Ends(i) => (WritesOne /\ EchoesId(stdout'.last, RequestId(i)))
       /\ \A line \in LocalRequestLines :
             OnLine(line, MaxLines) => (WritesOne /\ EchoesId(stdout'.last, line.v.f.id))]_vars

(***************************************************************************)
(* C7.  A well-formed request with an id whose method is initialize or     *)
(* ping is answered locally (ping: result {}; initialize:                  *)
(* result.protocolVersion is the protocol version of the proxy), with no   *)
(* HTTP call to the token or the command endpoint and with the token       *)
(* record unchanged, whatever the state of the credential cache.           *)
(***************************************************************************)
IsLocalAnswer(doc, line) ==
    /\ doc.t = "object" /\ DOMAIN doc.f = {"jsonrpc", "id", "result"}
    /\ doc.f.jsonrpc = Str(<<"2.0">>) /\ doc.f.id = line.v.f.id
    /\ IF line.v.f.method = Str(<<"ping">>)
       THEN doc.f.result = EmptyObj
       ELSE /\ HasKey(doc.f.result, "protocolVersion")
            /\ doc.f.result.f.protocolVersion = Str(<<"2024-11-05">>)

DispatcherFails(i) ==
    \/ handler[i].pc \in {"fetch", "refresh"} /\ Ends(i)
    \/ CommandDone(i, Reject)

FailingTokenOutcome(o) == o.kind = "reject" \/ o.status # 200

C8_FailuresAnswered ==
    \A i \in Handlers :
        /\ DispatcherFails(i)
              => /\ WritesOne /\ IsErrorDoc(stdout'.last, RequestId(i))
                 /\ handler'[i] = Done("response")
                 /\ OnlyTouches(i)
        /\ \A o \in FetchOutcomes(now) :
              (FetchDone(i, o) /\ FailingTokenOutcome(o)) => Ends(i)
        /\ \A o \in RefreshOutcomes(now) :
              (RefreshDone(i, o) /\ FailingTokenOutcome(o)) => Ends(i)
        /\ Ends(i) => (WritesOne /\ handler'[i] = Done("response"))

C8_DispatcherFailureContained ==
    /\ [][C8_FailuresAnswered]_vars
    /\ <>[](Pending = {})

\* the first line's dispatch has failed and has been answered with an error
\* response carrying its id; a later request is being served
C8_Witness ==
    /\ Len(handler) = 2
    /\ handler[1] = Done("response")
    /\ handler[2].pc # "done"
    /\ stdout.count = 1
    /\ IsErrorDoc(stdout.last, Num(7))
    /\ stdout.last.f.error.f.message \in {Str(<<"Request failed">>), Str(<<"Error getting token">>)}

(***************************************************************************)
(* C9.  After a refresh attempt fails, in whatever way (a non-200 status   *)
(* or the HTTP call raising), the token record is absent, so that the next *)
(* getToken call performs a fetch.                                         *)
(***************************************************************************)
C9_FailedRefreshDiscardsRecord ==
    [][\A i \in Handlers :
          (handler[i].pc = "refresh" /\ Ends(i))
              => (fullToken'.t # "object" /\ getToken(fullToken', now') = "fetch")]_vars

(***************************************************************************)
(* C10.  getToken attempts a refresh iff a token record exists and         *)
(* expiresAt - now < 10000: at now + 9999 it refreshes, at now + 10000 or  *)
(* later it does not; a cached token returned without an HTTP call is at   *)
(* least 10000 ms from expiry.                                             *)
(***************************************************************************)
HasRecord == fullToken.t = "object"
TimeLeft == fullToken.f.token_expires_at.n - now

C10_RefreshBoundary ==
    [][\A line \in ForwardedRequestLines :
          OnLine(line, MaxLines)
              => LET h == handler'[Len(handler')]
                 IN  /\ h.pc = "refresh" <=> (HasRecord /\ TimeLeft < 10000)
                     /\ h.pc = "command"
                           => /\ HasRecord /\ TimeLeft >= 10000
                              /\ h.token = fullToken.f.access_token
                     /\ h.pc = "fetch" <=> ~HasRecord]_vars

\* a request has found the record 9999 ms from expiry and waits for the refresh
C10_Witness ==
    /\ HasRecord /\ TimeLeft = 9999
    /\ \E i \in Handlers : handler[i].pc = "refresh"

(***************************************************************************)
(* C11.  With a fetched token record that is not within 10000 ms of its    *)
(* expiry, two successive getToken calls with no time elapsed between them *)
(* both return the access token of the record, issue no call to the token  *)
(* endpoint, and leave the record as it is.                                *)
(***************************************************************************)
C11_CachedTokenIdempotent ==
    [][\A line \in ToolCallLines :
          (OnLine(line, MaxCalls) /\ HasRecord /\ TimeLeft >= 10000)
              => LET h == handler'[Len(handler')]
                 IN  \* the first call
                     /\ h.pc = "command" /\ h.token = fullToken.f.access_token
                     /\ fullToken' = fullToken /\ now' = now
                     \* the second call, in the state the first one leaves
                     /\ getToken(fullToken', now') = "cached"
                     /\ OptGet(fullToken', "access_token") = h.token]_vars

\* two calls have been handed the cached token of a record fetched at this
\* very millisecond, 20000 ms from its expiry
C11_Witness ==
    /\ Len(handler) = 3 /\ HasRecord /\ TimeLeft = 20000
    /\ \A i \in {2, 3} : /\ handler[i].pc = "command"
                          /\ handler[i].token = fullToken.f.access_token

(***************************************************************************)
(* C12.  Whatever configuration ConfigSchema has accepted, the envelope    *)
(* executeCommand builds for a forwarded request carries exactly one of    *)
(* agent_id and selector: agent_id, with the configured value, whenever    *)
(* agentId is configured (the empty string included), and selector, with   *)
(* the configured value, only when agentId is not configured.              *)
(***************************************************************************)
\* the body of the POST: axios serialises the request with JSON.stringify
Envelope(i) == JSONstringify(handler[i].request)

C12_ExactlyOneRoutingField ==
    \A i \in Pending :
        LET e == Envelope(i)
        IN  /\ HasKey(e, "agent_id") # HasKey(e, "selector")
            /\ config.agentId # Undef
                  => (HasKey(e, "agent_id") /\ e.f.agent_id = config.agentId)
            /\ config.agentId = Undef
                  => (HasKey(e, "selector") /\ e.f.selector = config.selector)

(***************************************************************************)
(* C13.  The envelope of a forwarded request has command.type "mcp-exec",  *)
(* and command.data holds the members of the request except jsonrpc and    *)
(* id: these two are not in it, every other member is, unchanged.          *)
(***************************************************************************)
C13_DataOmitsJsonrpcAndId ==
    \A i \in Pending :
        LET command == Envelope(i).f.command
            sent == handler[i].line.v
        IN  /\ command.f.type = Str(<<"mcp-exec">>)
            /\ DOMAIN command.f.data.f = DOMAIN sent.f \ {"jsonrpc", "id"}
            /\ \A k \in DOMAIN sent.f \ {"jsonrpc", "id"} : command.f.data.f[k] = sent.f[k]

\* C13 amended: the envelope of a forwarded request has command.type
\* "mcp-exec", and command.data holds every member of the request unchanged,
\* jsonrpc and id included, and nothing else.
C13_DataCopiesWholeRequest ==
    \A i \in Pending :
        LET command == Envelope(i).f.command
            sent == handler[i].line.v
        IN  /\ DOMAIN command.f = {"type", "data"}
            /\ command.f.type = Str(<<"mcp-exec">>)
            /\ command.f.data.t = "object"
            /\ DOMAIN command.f.data.f = DOMAIN sent.f
            /\ \A k \in DOMAIN sent.f : command.f.data.f[k] = sent.f[k]

\* the envelope of the tools/call request 7 is on its way to the command
\* endpoint, routed by selector
C13_Witness ==
    \E i \in Pending :
        /\ handler[i].pc = "command"
        /\ config.agentId = Undef
        /\ Envelope(i).f.selector = Selector
        /\ Envelope(i).f.command.f.data =
               Obj([jsonrpc |-> Str(<<"2.0">>), id |-> Num(7),
                    method |-> Str(<<"tools", "call">>),
                    params |-> Obj([name |-> Str(<<"deploy">>)])])

(***************************************************************************)
(* C14.  However the processing of the lines interleaves, each line causes *)
(* at most one response on standard output (a line is written only by the  *)
(* step that ends an invocation, an invocation that has ended does nothing *)
(* more, and the number of lines written is the number of invocations that *)
(* ended with a response); a blank line and a notification cause none; a   *)
(* well-formed request causes exactly one, when it is answered locally or  *)
(* when its HTTP calls have completed.                                     *)
(***************************************************************************)
Answered == {i \in Handlers : handler[i] = Done("response")}

RequestLines == LocalRequestLines \cup ForwardedRequestLines

C14_OneResponsePerLine ==
    stdout.count = Cardinality(Answered)

\* a step that takes a new line, and a step that resumes an invocation
ReadsLine == Len(handler') = Len(handler) + 1

C14_StepWritesForItsLine ==
    /\ WritesOne \/ WritesNothing
    /\ \A i \in Handlers : handler[i].pc = "done" => handler'[i] = handler[i]
    /\ ~ReadsLine
          => \A i \in Handlers :
                Ends(i) => (WritesOne /\ handler'[i] = Done("response") /\ OnlyTouches(i))
    /\ ReadsLine
          => /\ OnLine(BlankLine, MaxLines) => (WritesNothing /\ ReturnsAtOnce("none"))
             /\ \A line \in NotificationLines \cap SampleLines :
                   OnLine(line, MaxLines) => (WritesNothing /\ ReturnsAtOnce("null"))
             /\ \A line \in LocalRequestLines \cap SampleLines :
                   OnLine(line, MaxLines) => (WritesOne /\ ReturnsAtOnce("response"))
             /\ \A line \in ForwardedRequestLines \cap SampleLines :
                   OnLine(line, MaxLines)
                       => (WritesNothing /\ handler'[Len(handler')].pc # "done"
                           /\ handler'[Len(handler')].line = line)

C14_AtMostOneResponsePerLine ==
    []C14_OneResponsePerLine /\ [][C14_StepWritesForItsLine]_vars

\* two requests were in progress together; the second (id 8) has been
\* answered, with the one line written so far, while the first (id 7) still
\* waits for the command endpoint
C14_Witness ==
    /\ Len(handler) = 2
    /\ handler[1].pc = "command" /\ RequestId(1) = Num(7)
    /\ handler[2] = Done("response")
    /\ stdout.count = 1
    /\ stdout.last = Obj([jsonrpc |-> Str(<<"2.0">>), id |-> Num(8), ok |-> True])

(***************************************************************************)
(* C15.  When two forwarded requests are processed interleaved and both    *)
(* call getToken while the token record is absent or stale, they do not    *)
(* each start a call to the token endpoint: at most one fetch or refresh   *)
(* is in flight at any time.                                               *)
(***************************************************************************)
TokenCallsInFlight == {i \in Handlers : handler[i].pc \in {"fetch", "refresh"}}

C15_OneTokenCallInFlight == Cardinality(TokenCallsInFlight) <= 1

(***************************************************************************)
(* C16.  While the HTTP call of a forwarded request is pending, for        *)
(* however long, the read loop is not blocked: the next line, whatever it  *)
(* is, is taken and processed, and a ping or initialize request read then  *)
(* gets its response in the very turn it is read, the earlier call still   *)
(* pending (responses need not follow the order of the lines).             *)
(***************************************************************************)
\* the bounds of the model leave room for one more line
RoomForLine == Len(handler) < MaxLines /\ Cardinality(Pending) < MaxPending

C16_NextLineIsTaken ==
    (Pending # {} /\ RoomForLine) => \A line \in Lines : ENABLED OnLine(line, MaxLines)

C16_LocalRequestAnsweredMeanwhile ==
    \A line \in LocalRequestLines :
        (OnLine(line, MaxLines) /\ Pending # {})
            => /\ WritesOne /\ IsLocalAnswer(stdout'.last, line)
               /\ ReturnsAtOnce("response")
               /\ \A i \in Pending : handler'[i] = handler[i]

C16_ReadLoopNotBlocked ==
    []C16_NextLineIsTaken /\ [][C16_LocalRequestAnsweredMeanwhile]_vars

\* the ping 8 has been answered, with the only line written so far, while
\* the tools/call 7 read before it waits for the command endpoint
C16_Witness ==
    /\ Len(handler) = 2
    /\ handler[1].pc = "command" /\ RequestId(1) = Num(7)
    /\ handler[2] = Done("response")
    /\ stdout = [count |-> 1, last |-> ResultDoc(Num(8), EmptyObj)]

(***************************************************************************)
(* C17.  The POST of a forwarded request to the command endpoint is issued *)
(* only once getToken has returned for that request, and its Authorization *)
(* header is "Bearer " followed by the token getToken returned; when       *)
(* getToken fails (the token call is rejected or answers with a status     *)
(* other than 200, or the refresh cannot store its result), no POST is     *)
(* issued for the line and an error response with its id is written.       *)
(***************************************************************************)
\* the Authorization header of the POST that invocation i has in flight
Authorization(i) == Bearer(handler[i].token)

\* where invocation i stands before the step
Before(i) == IF i \in Handlers THEN handler[i].pc ELSE "unread"

\* what getToken returns at the end of the step: this.fullToken?.access_token
Returned == OptGet(fullToken', "access_token")

C17_Step ==
    \A i \in 1..Len(handler') :
        \* the step issues the POST of invocation i
        /\ (Before(i) # "command" /\ handler'[i].pc = "command")
              => /\ handler'[i].token = Returned
                 /\ Authorization(i)' = Bearer(Returned)
                 /\ WritesNothing
        \* no POST is in flight before getToken has returned
        /\ handler'[i].pc \in {"fetch", "refresh"}
              => (Before(i) \in {"unread", handler'[i].pc} /\ handler'[i].token = Undef)
        \* getToken fails
        /\ (Before(i) \in {"fetch", "refresh"} /\ handler'[i].pc \notin {Before(i), "command"})
              => /\ handler'[i] = Done("response")
                 /\ WritesOne /\ IsErrorDoc(stdout'.last, RequestId(i))
        /\ \A o \in LongFetchOutcomes(now) :
              (i \in Handlers /\ FetchDone(i, o) /\ FailingTokenOutcome(o))
                  => handler'[i].pc # "command"
        /\ \A o \in RefreshOutcomes(now) :
              (i \in Handlers /\ RefreshDone(i, o)
                   /\ (FailingTokenOutcome(o) \/ fullToken.t # "object"))
                  => handler'[i].pc # "command"

C17_PostCarriesReturnedToken == [][C17_Step]_vars

\* two POSTs are in flight: the first carries the fetched token, the second
\* the token a refresh has returned since
C17_Witness ==
    /\ Len(handler) = 2
    /\ handler[1].pc = "command" /\ Authorization(1) = Str(<<"Bearer ", "token-1">>)
    /\ handler[2].pc = "command" /\ Authorization(2) = Str(<<"Bearer ", "token-2">>)
    /\ HasRecord /\ fullToken.f.access_token = Str(<<"token-2">>)
    /\ TimeLeft < 10000

(***************************************************************************)
(* C18.  A fetch that is answered with a status other than 200, or with    *)
(* 200 and no body, makes getToken fail: no token is returned (the line is *)
(* answered with an error response and no command is posted), nothing is   *)
(* stored, and with the record still absent the next getToken call         *)
(* performs a fetch again.                                                 *)
(***************************************************************************)
C18_FetchWithoutTokenFails ==
    [][\A i \in Handlers : \A o \in LongFetchOutcomes(now) :
          (FetchDone(i, o) /\ (FailingTokenOutcome(o) \/ o.data = NoBody))
              => /\ handler'[i] = Done("response")
                 /\ WritesOne /\ IsErrorDoc(stdout'.last, RequestId(i))
                 /\ fullToken' = fullToken
                 /\ ~HasRecord => getToken(fullToken', now') = "fetch"]_vars

(***************************************************************************)
(* C19.  A refresh that is answered with 200 while the token record exists *)
(* replaces the access token and the expiry of the record with those of    *)
(* the answer and nothing else: the refresh token, the organization id and *)
(* every other member are unchanged; getToken then returns the new access  *)
(* token.                                                                  *)
(***************************************************************************)
C19_RefreshUpdatesInPlace ==
    [][\A i \in Handlers : \A o \in RefreshOutcomes(now) :
          (RefreshDone(i, o) /\ o.kind = "resolve" /\ o.status = 200 /\ HasRecord)
              => /\ fullToken'.t = "object"
                 /\ DOMAIN fullToken'.f = DOMAIN fullToken.f
                 /\ fullToken'.f.access_token = o.data.f.access_token
                 /\ fullToken'.f.token_expires_at = o.data.f.token_expires_at
                 /\ \A k \in DOMAIN fullToken.f \ {"access_token", "token_expires_at"} :
                       fullToken'.f[k] = fullToken.f[k]
                 /\ fullToken'.f.refresh_token = Str(<<"refresh">>)
                 /\ fullToken'.f.organization_id = Str(<<"org">>)
                 /\ handler'[i].pc = "command"
                 /\ handler'[i].token = o.data.f.access_token]_vars

\* a refresh has put token-2 and an expiry 10000 ms ahead (which only the
\* answer to a refresh carries) into the record, whose other members are
\* those of the fetch; the call that refreshed has been handed token-2
C19_Witness ==
    /\ HasRecord /\ TimeLeft = 10000
    /\ fullToken = TokenBody(Str(<<"token-2">>), now + 10000)
    /\ \E i \in Handlers : handler[i].pc = "command" /\ handler[i].token = Str(<<"token-2">>)
    /\ \E i \in Handlers : handler[i].pc = "command" /\ handler[i].token = Str(<<"token-1">>)

(***************************************************************************)
(* C20.  Under interleaved getToken calls, a refresh that is answered with *)
(* 200 finds the token record present when it completes and returns the    *)
(* access token of the answer to its caller: no interleaving makes a       *)
(* successful refresh end in an error.                                     *)
(***************************************************************************)
C20_SuccessfulRefreshReturnsToken ==
    [][\A i \in Handlers : \A o \in RefreshOutcomes(now) :
          (RefreshDone(i, o) /\ o.kind = "resolve" /\ o.status = 200)
              => /\ HasRecord
                 /\ handler'[i].pc = "command"
                 /\ handler'[i].token = o.data.f.access_token
                 /\ WritesNothing]_vars

====
